---------------------------- MODULE Spec2Model ----------------------------
(***************************************************************************)
(* Model of ooicgsn_glider_dvl: the sensor classifier, channel splitter,   *)
(* resampler/merger and waypoint mapper of merge.py and the profile         *)
(* segmenter of profiles.py.                                                *)
(*                                                                          *)
(* Representation.  A cell of a floating point column is a sequence of      *)
(* length at most one: <<>> is a missing value (NaN), <<x>> is the number   *)
(* x.  Numbers are integers; latitudes and longitudes are in tenths of a    *)
(* degree, timestamps in whole seconds.  Array indices are 0-based as in    *)
(* numpy: index i of an array is position i+1 of the TLA+ sequence.         *)
(***************************************************************************)
EXTENDS Integers, Sequences, FiniteSets, TLC

VARIABLES
    dvl,        \* the reference (DVL) dataset: [time, vars]
    dvl0,       \* the reference dataset as it was supplied by the caller
    gdac,       \* the science (GDAC) dataset: [time, vars]
    waypoints,  \* the waypoint log supplied by the caller
    pc,         \* position inside the running function
    local,      \* local variables of the running function
    applied,    \* the augmentation paths applied so far
    ret         \* outcome of the latest completed call: [op, status, value]

vars == <<dvl, dvl0, gdac, waypoints, pc, local, applied, ret>>

----------------------------------------------------------------------------
(* Bounds of the model.                                                     *)

MaxSamples == 4     \* longest reference time base of the profile model
MaxTime == 4        \* latest timestamp of the profile model
MaxWpts == 3        \* longest waypoint log
MaxWptTime == 3     \* latest waypoint timestamp

----------------------------------------------------------------------------
(* Cells and small helpers.                                                 *)

NaN == <<>>

Num(x) == <<x>>

IsNaN(c) == c = NaN

Abs(x) == IF x < 0 THEN -x ELSE x

RECURSIVE SortedSeq(_)
SortedSeq(S) ==
    IF S = {} THEN <<>>
    ELSE LET m == CHOOSE x \in S : \A y \in S : x <= y
         IN <<m>> \o SortedSeq(S \ {m})

\* np.flatnonzero: the 0-based positions at which the mask is true, ascending.
flatnonzero(mask) ==
    LET F[i \in 0..Len(mask)] ==
            IF i = 0 THEN <<>>
            ELSE IF mask[i] THEN Append(F[i-1], i-1) ELSE F[i-1]
    IN F[Len(mask)]

NoRet == [op |-> "none", status |-> "none", value |-> <<>>]

Returned(op, v) == [op |-> op, status |-> "ok", value |-> v]

Raised(op, exc) == [op |-> op, status |-> "raised", value |-> exc]

EmptyDataset == [time |-> <<>>, coords |-> {}, vars |-> <<>>]

\* no function is running: its local variables are unset
NoLocal == [waypoints |-> <<>>, wpt_lat |-> <<>>, wpt_lon |-> <<>>, wpt_time |-> <<>>, n |-> 0]

----------------------------------------------------------------------------
(* profiles.py                                                              *)

Epoch == 0          \* np.datetime64('1970-01-01T00:00:00'), in seconds

Threshold == 2      \* dz_dt > 2

Unit == 1           \* np.timedelta64(1, 's'), in seconds

\* unix_time: the time since the epoch of a datetime, in units of 's'
unix_time(dt) == (dt - Epoch) \div Unit

\* ds['depth_from_pressure'].diff(dim='time') followed by np.abs: entry i
\* (0-based) is |depth[i+1] - depth[i]|, missing when either side is.
AbsDepthDiff(depth) ==
    [i \in 1..(IF Len(depth) = 0 THEN 0 ELSE Len(depth) - 1) |->
        IF IsNaN(depth[i]) \/ IsNaN(depth[i+1]) THEN NaN
        ELSE Num(Abs(depth[i+1][1] - depth[i][1]))]

\* idx = np.flatnonzero(dz_dt > 2); a comparison with NaN is false.
InflectionDiffIdx(depth) ==
    LET dz == AbsDepthDiff(depth)
    IN flatnonzero([i \in 1..Len(dz) |-> ~IsNaN(dz[i]) /\ dz[i][1] > Threshold])

InflectionTimesUpper(time_, idx) ==
    <<time_[1]>> \o [k \in 1..Len(idx) |-> time_[idx[k] + 2]] \o <<time_[Len(time_)]>>

\* inflection_times = np.insert(time_[idx], [0, len], [time_[0], time_[-1]])
InflectionTimes(time_, idx) ==
    <<time_[1]>> \o [k \in 1..Len(idx) |-> time_[idx[k] + 1]] \o <<time_[Len(time_)]>>

ProfileIdxClosedLeft(time_, pstart, pend) ==
    {i \in 0..(Len(time_) - 1) : time_[i+1] >= pstart /\ time_[i+1] <= pend}

\* profile_idx = np.flatnonzero(np.logical_and(time_ > pstart, time_ <= pend))
ProfileIdx(time_, pstart, pend) ==
    {i \in 0..(Len(time_) - 1) : time_[i+1] > pstart /\ time_[i+1] <= pend}

\* the loop over consecutive bracket timestamps; empty intervals are skipped
ProfileLoop(time_, inflection_times) ==
    LET L[k \in 0..(Len(inflection_times) - 1)] ==
            IF k = 0 THEN <<>>
            ELSE LET profile_idx ==
                        ProfileIdx(time_, inflection_times[k], inflection_times[k+1])
                 IN IF profile_idx = {} THEN L[k-1] ELSE Append(L[k-1], profile_idx)
    IN L[Len(inflection_times) - 1]

identify_profiles(ds) ==
    LET time_ == [i \in 1..Len(ds.time) |-> unix_time(ds.time[i])]
        idx == InflectionDiffIdx(ds.vars["depth_from_pressure"].data)
    IN IF Len(time_) = 0
       THEN Raised("identify_profiles", "IndexError")      \* time_[0]
       ELSE Returned("identify_profiles",
                     ProfileLoop(time_, InflectionTimes(time_, idx)))

\* profiles = np.zeros(shape); for n, idx in enumerate(profile_idx): profiles[idx] = n
Scatter(n, profile_idx) ==
    LET S[k \in 0..Len(profile_idx)] ==
            IF k = 0 THEN [i \in 1..n |-> 0]
            ELSE [i \in 1..n |-> IF (i-1) \in profile_idx[k] THEN k - 1 ELSE S[k-1][i]]
    IN S[Len(profile_idx)]

get_profile_ids(ds) ==
    LET r == identify_profiles(ds)
    IN IF r.status = "raised" THEN Raised("get_profile_ids", r.value)
       ELSE Returned("get_profile_ids", Scatter(Len(ds.time), r.value))

ProfileIdAttrs ==
    [comment |-> "The id of each profile in the dataset counting sequentially from the first profile.",
     long_name |-> "Profile ID",
     ancillary_variables |-> "depth_from_pressure"]

\* ds[name] = (['time'], data) followed by ds[name].attrs = attrs
SetVar(ds, name, data, attrs) ==
    [ds EXCEPT !.vars = (name :> [data |-> data, attrs |-> attrs]) @@ ds.vars]

add_profiles(ds) ==
    LET r == get_profile_ids(ds)
    IN IF r.status = "raised" THEN Raised("add_profiles", r.value)
       ELSE Returned("add_profiles", SetVar(ds, "profile_id", r.value, ProfileIdAttrs))

----------------------------------------------------------------------------
(* The profile model: the caller applies the three functions of             *)
(* profiles.py to a dataset with a depth channel.                           *)

DepthVals == {0, 2, 5}

DepthCells == {NaN} \cup {Num(d) : d \in DepthVals}

NoAttrs == [long_name |-> ""]

DepthDataset(time, depth) ==
    [time |-> time,
     coords |-> {},
     vars |-> ("depth_from_pressure" :> [data |-> depth, attrs |-> NoAttrs])]

\* depth signal [1,2,3,50,49,48,3,2,1] at evenly spaced times t0..t8
ScenarioA ==
    DepthDataset([i \in 1..9 |-> 10 * i],
                 <<Num(1), Num(2), Num(3), Num(50), Num(49), Num(48), Num(3), Num(2), Num(1)>>)

TimeBases(maxLen, maxTime) ==
    {SortedSeq(S) : S \in {T \in SUBSET (1..maxTime) : Cardinality(T) <= maxLen}}

InitProfiles ==
    /\ \/ \E t \in TimeBases(MaxSamples, MaxTime) : \E d \in [1..Len(t) -> DepthCells] :
             dvl = DepthDataset(t, d)
       \/ dvl = ScenarioA
    /\ dvl0 = dvl
    /\ gdac = EmptyDataset
    /\ waypoints = <<>>
    /\ pc = "idle"
    /\ local = NoLocal
    /\ applied = {}
    /\ ret = NoRet

IdentifyProfiles ==
    /\ pc = "idle"
    /\ ret' = identify_profiles(dvl)
    /\ UNCHANGED <<dvl, dvl0, gdac, waypoints, pc, local, applied>>

GetProfileIds ==
    /\ pc = "idle"
    /\ ret' = get_profile_ids(dvl)
    /\ UNCHANGED <<dvl, dvl0, gdac, waypoints, pc, local, applied>>

\* add_profiles assigns into the dataset it was given and returns it
AddProfiles ==
    /\ pc = "idle"
    /\ LET r == add_profiles(dvl)
       IN /\ ret' = r
          /\ dvl' = IF r.status = "ok" THEN r.value ELSE dvl
          /\ applied' = IF r.status = "ok" THEN applied \cup {"profiles"} ELSE applied
    /\ UNCHANGED <<dvl0, gdac, waypoints, pc, local>>

NextProfiles == IdentifyProfiles \/ GetProfileIds \/ AddProfiles

SpecProfiles == InitProfiles /\ [][NextProfiles]_vars

----------------------------------------------------------------------------
(* Claims about the profile segmenter.                                      *)

IdentifiedOn(ds) == ret.op = "identify_profiles" /\ ret.status = "ok" /\ dvl0 = ds

\* C1 (as amended): on the depth signal [1,2,3,50,49,48,3,2,1] at evenly
\* spaced times t0..t8 identify_profiles finds exactly two inflection points
\* (between index 2->3 and 5->6) and returns exactly three profiles, whose
\* index sets are {1,2}, {3,4,5} and {6,7,8}.
C1_ScenarioAThreeProfiles ==
    IdentifiedOn(ScenarioA) =>
        /\ InflectionDiffIdx(dvl.vars["depth_from_pressure"].data) = <<2, 5>>
        /\ ret.value = <<{1, 2}, {3, 4, 5}, {6, 7, 8}>>

\* C1 as stated: the same call returns exactly the two profiles {1,2,3} and
\* {4,5,6,7,8}.
C1_ScenarioATwoProfiles ==
    IdentifiedOn(ScenarioA) =>
        /\ InflectionDiffIdx(dvl.vars["depth_from_pressure"].data) = <<2, 5>>
        /\ ret.value = <<{1, 2, 3}, {4, 5, 6, 7, 8}>>

C1_Witness == IdentifiedOn(ScenarioA) /\ Len(ret.value) > 1

\* C4: the index sets returned by identify_profiles are non-empty and
\* pairwise disjoint, their union is the set of sample indices whose time
\* lies in (first timestamp, last timestamp], every index of a profile is
\* smaller than every index of the next one, and get_profile_ids labels the
\* samples with the ids 0,1,2,... in non-decreasing order along time.
C4_ProfilePartition ==
    /\ (ret.op = "identify_profiles" /\ ret.status = "ok") =>
          LET P == ret.value
              t == dvl.time
              n == Len(t)
          IN /\ \A k \in 1..Len(P) : P[k] # {}
             /\ \A j, k \in 1..Len(P) : j # k => P[j] \cap P[k] = {}
             /\ UNION {P[k] : k \in 1..Len(P)} =
                    {i \in 0..(n-1) : t[i+1] > t[1] /\ t[i+1] <= t[n]}
             /\ \A k \in 1..(Len(P) - 1) : \A a \in P[k], b \in P[k+1] : a < b
    /\ (ret.op = "get_profile_ids" /\ ret.status = "ok") =>
          LET ids == ret.value
          IN /\ Len(ids) = Len(dvl.time)
             /\ \A i, j \in 1..Len(ids) : i < j => ids[i] <= ids[j]
             /\ \A i \in 1..Len(ids) : \A m \in 0..ids[i] : \E j \in 1..Len(ids) : ids[j] = m

C4_Witness ==
    /\ ret.op = "identify_profiles" /\ ret.status = "ok"
    /\ Len(ret.value) >= 2
    /\ Len(InflectionDiffIdx(dvl.vars["depth_from_pressure"].data)) >= Len(ret.value)

\* C9: when the depth channel has zero samples (or the waypoint log has zero
\* rows after cleaning) the operation ends with an explicit "no data to
\* process" outcome, distinct from a raised exception and from a normal
\* result.
C9_NoDataOutcome ==
    (ret.op # "none" /\ Len(dvl0.time) = 0) => ret.status = "no_data"

----------------------------------------------------------------------------
(* merge.py: add_waypoints                                                  *)

\* The timestamps of the engineering csv file, as text, in chronological
\* order; pd.to_datetime parses the text at position k as second k.
TimeText ==
    <<"1970-01-01T00:00:01", "1970-01-01T00:00:02", "1970-01-01T00:00:03",
      "1970-01-01T00:00:04", "1970-01-01T00:00:05", "1970-01-01T00:00:06">>

to_datetime(text) == Epoch + (CHOOSE k \in 1..Len(TimeText) : TimeText[k] = text)

RowHasNaN(row) == IsNaN(row.time) \/ IsNaN(row.c_wpt_lat) \/ IsNaN(row.c_wpt_lon)

\* waypoints[['time','c_wpt_lat','c_wpt_lon']].dropna(), then the time
\* column mapped through pd.to_datetime
CleanWaypoints(log) ==
    LET kept == SelectSeq(log, LAMBDA row : ~RowHasNaN(row))
    IN [k \in 1..Len(kept) |->
            [time |-> to_datetime(kept[k].time[1]),
             c_wpt_lat |-> kept[k].c_wpt_lat[1],
             c_wpt_lon |-> kept[k].c_wpt_lon[1]]]

DuplicateMaskEither(w) ==
    [k \in 1..Len(w) |->
        /\ k > 1
        /\ \/ w[k].c_wpt_lat - w[k-1].c_wpt_lat = 0
           \/ w[k].c_wpt_lon - w[k-1].c_wpt_lon = 0]

\* d_wpt = waypoints.diff(); mask = (d_lat == 0) & (d_lon == 0); the
\* difference of the first row is missing and compares unequal to zero
DuplicateMask(w) ==
    [k \in 1..Len(w) |->
        /\ k > 1
        /\ w[k].c_wpt_lat - w[k-1].c_wpt_lat = 0
        /\ w[k].c_wpt_lon - w[k-1].c_wpt_lon = 0]

\* waypoints = waypoints[~mask]
CollapseWaypoints(w) ==
    LET mask == DuplicateMask(w)
        keep == flatnonzero([k \in 1..Len(w) |-> ~mask[k]])
    IN [j \in 1..Len(keep) |-> w[keep[j] + 1]]

WaypointIdxClosedLeft(wpt_time, w, n) ==
    IF n = 0
    THEN {i \in 1..Len(wpt_time) : wpt_time[i] <= w[1].time}
    ELSE {i \in 1..Len(wpt_time) : wpt_time[i] >= w[n].time /\ wpt_time[i] <= w[n+1].time}

\* idx of iteration n (0-based) of the loop: np.where(wpt_time <= t) for the
\* first waypoint, np.where((wpt_time > t0) & (wpt_time <= t)) afterwards,
\* t0 = waypoints['time'].iloc[n-1]
WaypointIdx(wpt_time, w, n) ==
    IF n = 0
    THEN {i \in 1..Len(wpt_time) : wpt_time[i] <= w[1].time}
    ELSE {i \in 1..Len(wpt_time) : wpt_time[i] > w[n].time /\ wpt_time[i] <= w[n+1].time}

\* one iteration of the loop: wpt_lat[idx] = lat; wpt_lon[idx] = lon
MapWaypoint(l, n) ==
    LET idx == WaypointIdx(l.wpt_time, l.waypoints, n)
        row == l.waypoints[n+1]
    IN [l EXCEPT
          !.wpt_lat = [i \in 1..Len(l.wpt_lat) |->
                          IF i \in idx THEN row.c_wpt_lat ELSE l.wpt_lat[i]],
          !.wpt_lon = [i \in 1..Len(l.wpt_lon) |->
                          IF i \in idx THEN row.c_wpt_lon ELSE l.wpt_lon[i]],
          !.n = n + 1]

\* wpt_lat = np.zeros(shape); wpt_lon = np.zeros(shape); wpt_time = time
AllocWaypointArrays(ds, w) ==
    [waypoints |-> w,
     wpt_lat |-> [i \in 1..Len(ds.time) |-> 0],
     wpt_lon |-> [i \in 1..Len(ds.time) |-> 0],
     wpt_time |-> ds.time,
     n |-> 0]

WaypointLatAttrs ==
    [long_name |-> "Glider Waypoint Latitude",
     comment |-> "The target waypoint latitude for the glider.",
     units |-> "degrees"]

WaypointLonAttrs ==
    [long_name |-> "Glider Waypoint Longitude",
     comment |-> "The target waypoint longitude for the glider.",
     units |-> "degrees"]

\* dvl['waypoint_lat'] = (['time'], wpt_lat); dvl['waypoint_lon'] = ...
AttachWaypoints(ds, l) ==
    SetVar(SetVar(ds, "waypoint_lat", l.wpt_lat, WaypointLatAttrs),
           "waypoint_lon", l.wpt_lon, WaypointLonAttrs)

RECURSIVE WaypointLoop(_)
WaypointLoop(l) ==
    IF l.n >= Len(l.waypoints) THEN l ELSE WaypointLoop(MapWaypoint(l, l.n))

\* the function as a whole
add_waypoints(ds, log) ==
    LET w == CollapseWaypoints(CleanWaypoints(log))
    IN Returned("add_waypoints",
                AttachWaypoints(ds, WaypointLoop(AllocWaypointArrays(ds, w))))

----------------------------------------------------------------------------
(* The waypoint model: add_waypoints runs statement by statement on a       *)
(* chronologically ordered log and a dense reference time base.             *)

LatVals == {100, 105}

LonVals == {0 - 700, 0 - 702}

WaypointRows(times) ==
    [time : {Num(TimeText[k]) : k \in times},
     c_wpt_lat : {NaN} \cup {Num(x) : x \in LatVals},
     c_wpt_lon : {Num(x) : x \in LonVals}]

Chronological(log) ==
    \A j \in 1..(Len(log) - 1) :
        to_datetime(log[j].time[1]) <= to_datetime(log[j+1].time[1])

\* reference timestamps before, at, between and after every waypoint
DenseDataset(maxTime) ==
    [time |-> [i \in 1..(maxTime + 2) |-> Epoch + i - 1], coords |-> {}, vars |-> <<>>]

InitWaypoints ==
    /\ dvl = DenseDataset(MaxWptTime)
    /\ dvl0 = dvl
    /\ gdac = EmptyDataset
    /\ \E len \in 0..MaxWpts : \E log \in [1..len -> WaypointRows(1..MaxWptTime)] :
          Chronological(log) /\ waypoints = log
    /\ pc = "idle"
    /\ local = NoLocal
    /\ applied = {}
    /\ ret = NoRet

WptClean ==
    /\ pc = "idle"
    /\ local' = [NoLocal EXCEPT !.waypoints = CleanWaypoints(waypoints)]
    /\ pc' = "diff"
    /\ ret' = NoRet
    /\ UNCHANGED <<dvl, dvl0, gdac, waypoints, applied>>

WptCollapse ==
    /\ pc = "diff"
    /\ local' = [local EXCEPT !.waypoints = CollapseWaypoints(local.waypoints)]
    /\ pc' = "alloc"
    /\ UNCHANGED <<dvl, dvl0, gdac, waypoints, applied, ret>>

WptAlloc ==
    /\ pc = "alloc"
    /\ local' = AllocWaypointArrays(dvl, local.waypoints)
    /\ pc' = "loop"
    /\ UNCHANGED <<dvl, dvl0, gdac, waypoints, applied, ret>>

WptLoop ==
    /\ pc = "loop"
    /\ local.n < Len(local.waypoints)
    /\ local' = MapWaypoint(local, local.n)
    /\ UNCHANGED <<dvl, dvl0, gdac, waypoints, pc, applied, ret>>

WptAttach ==
    /\ pc = "loop"
    /\ local.n >= Len(local.waypoints)
    /\ dvl' = AttachWaypoints(dvl, local)
    /\ ret' = Returned("add_waypoints", dvl')
    /\ applied' = applied \cup {"waypoints"}
    /\ pc' = "idle"
    /\ local' = NoLocal
    /\ UNCHANGED <<dvl0, gdac, waypoints>>

NextWaypoints == WptClean \/ WptCollapse \/ WptAlloc \/ WptLoop \/ WptAttach

SpecWaypoints == InitWaypoints /\ [][NextWaypoints]_vars

----------------------------------------------------------------------------
(* Claims about the waypoint mapper.                                        *)

\* the surviving (cleaned, collapsed) waypoints of the caller's log
Surviving == CollapseWaypoints(CleanWaypoints(waypoints))

WaypointsAdded == ret.op = "add_waypoints" /\ ret.status = "ok" /\ pc = "idle"

AssignedLat(i) == dvl.vars["waypoint_lat"].data[i]

AssignedLon(i) == dvl.vars["waypoint_lon"].data[i]

\* C3: every reference timestamp t that receives an assignment gets the
\* (lat, lon) of the most recent surviving waypoint whose timestamp is <= t,
\* never a waypoint whose timestamp is later than t.
C3_MostRecentWaypoint ==
    WaypointsAdded =>
        \A i \in 1..Len(dvl.time) :
            (\E n \in 0..(Len(Surviving) - 1) : i \in WaypointIdx(dvl.time, Surviving, n)) =>
                \E m \in 1..Len(Surviving) :
                    /\ Surviving[m].time <= dvl.time[i]
                    /\ \A k \in (m+1)..Len(Surviving) : Surviving[k].time > dvl.time[i]
                    /\ AssignedLat(i) = Surviving[m].c_wpt_lat
                    /\ AssignedLon(i) = Surviving[m].c_wpt_lon

\* the log [(t0,10.0,-70.0),(t0,10.0,-70.0),(t1,10.5,-70.2)]
ScenarioB ==
    <<[time |-> Num(TimeText[1]), c_wpt_lat |-> Num(100), c_wpt_lon |-> Num(0 - 700)],
      [time |-> Num(TimeText[1]), c_wpt_lat |-> Num(100), c_wpt_lon |-> Num(0 - 700)],
      [time |-> Num(TimeText[2]), c_wpt_lat |-> Num(105), c_wpt_lon |-> Num(0 - 702)]>>

\* C5: with the collapsed waypoints w_0..w_k of a chronologically ordered
\* log, every reference timestamp t <= time(w_0) is assigned (lat, lon) of
\* w_0, every t with time(w_(n-1)) < t <= time(w_n) is assigned (lat, lon) of
\* w_n, and every t > time(w_k) keeps zero in both channels; the log of
\* scenario B maps timestamps <= t0 to (10.0,-70.0) and timestamps in
\* (t0,t1] to (10.5,-70.2).
C5_IntervalSemantics ==
    WaypointsAdded =>
        LET w == Surviving
            k == Len(w)
        IN \A i \in 1..Len(dvl.time) :
             LET t == dvl.time[i]
             IN /\ (k >= 1 /\ t <= w[1].time) =>
                      /\ AssignedLat(i) = w[1].c_wpt_lat
                      /\ AssignedLon(i) = w[1].c_wpt_lon
                /\ \A n \in 2..k :
                      (w[n-1].time < t /\ t <= w[n].time) =>
                          /\ AssignedLat(i) = w[n].c_wpt_lat
                          /\ AssignedLon(i) = w[n].c_wpt_lon
                /\ (k >= 1 /\ t > w[k].time) =>
                      (AssignedLat(i) = 0 /\ AssignedLon(i) = 0)
                /\ waypoints = ScenarioB =>
                      /\ t <= Epoch + 1 => (AssignedLat(i) = 100 /\ AssignedLon(i) = 0 - 700)
                      /\ (Epoch + 1 < t /\ t <= Epoch + 2) =>
                              (AssignedLat(i) = 105 /\ AssignedLon(i) = 0 - 702)

C5_Witness ==
    /\ WaypointsAdded
    /\ Len(Surviving) >= 2
    /\ Len(Surviving) < Len(waypoints)
    /\ Surviving[1].time < Surviving[2].time
    /\ \E i \in 1..Len(dvl.time) : AssignedLat(i) = 0

\* C8: the duplicate-collapse step leaves no two adjacent surviving rows
\* with identical (lat, lon); applied a second time to its own output it
\* removes no further rows and yields the same log.
C8_CollapseIdempotent ==
    pc = "alloc" =>
        /\ \A j \in 1..(Len(local.waypoints) - 1) :
              \/ local.waypoints[j].c_wpt_lat # local.waypoints[j+1].c_wpt_lat
              \/ local.waypoints[j].c_wpt_lon # local.waypoints[j+1].c_wpt_lon
        /\ CollapseWaypoints(local.waypoints) = local.waypoints

C8_Witness ==
    /\ pc = "alloc"
    /\ Len(local.waypoints) >= 2
    /\ Len(local.waypoints) < Len(CleanWaypoints(waypoints))

----------------------------------------------------------------------------
(* merge.py: sensor_variables, split_data, merge_datasets                   *)
(*                                                                          *)
(* A science dataset is [time, coords, vars]: vars is the ordered sequence  *)
(* of its variables, each [name, dims, attrs, data].  attrs.instrument is   *)
(* <<>> when the variable has no 'instrument' attribute and <<S>> when it   *)
(* has one, S being the set of known tokens the attribute's text contains;  *)
(* attrs.source_sensor tells whether it has a 'source_sensor' attribute.    *)

HasInstrument(ch) == ch.attrs.instrument # <<>>

InstrumentContains(ch, token) == token \in ch.attrs.instrument[1]

ClassOfIndependentGlider(ch) ==
    (IF ch.dims[1] = "profile" THEN {"profile"}
     ELSE IF HasInstrument(ch) THEN
         IF ch.name = "platform_meta" THEN {}
         ELSE IF InstrumentContains(ch, "ctd") THEN {"ctd"}
         ELSE IF InstrumentContains(ch, "oxy") THEN {"oxy"}
         ELSE IF InstrumentContains(ch, "par") THEN {"par"}
         ELSE IF InstrumentContains(ch, "flbbcd") THEN {"flbbcd"}
         ELSE {}
     ELSE {})
    \cup (IF ch.attrs.source_sensor THEN {"glider"} ELSE {})

ClassOfNoFlbbcd(ch) ==
    IF ch.dims[1] = "profile" THEN {"profile"}
    ELSE IF HasInstrument(ch) THEN
        IF ch.name = "platform_meta" THEN {}
        ELSE IF InstrumentContains(ch, "ctd") THEN {"ctd"}
        ELSE IF InstrumentContains(ch, "oxy") THEN {"oxy"}
        ELSE IF InstrumentContains(ch, "par") THEN {"par"}
        ELSE {}
    ELSE IF ch.attrs.source_sensor /\ ~HasInstrument(ch) THEN {"glider"}
    ELSE {}

\* the if/elif chain of the loop body: the lists the variable is appended to
ClassOf(ch) ==
    IF ch.dims[1] = "profile" THEN {"profile"}
    ELSE IF HasInstrument(ch) THEN
        IF ch.name = "platform_meta" THEN {}
        ELSE IF InstrumentContains(ch, "ctd") THEN {"ctd"}
        ELSE IF InstrumentContains(ch, "oxy") THEN {"oxy"}
        ELSE IF InstrumentContains(ch, "par") THEN {"par"}
        ELSE IF InstrumentContains(ch, "flbbcd") THEN {"flbbcd"}
        ELSE {}
    ELSE IF ch.attrs.source_sensor /\ ~HasInstrument(ch) THEN {"glider"}
    ELSE {}

\* one of the six lists after the loop, in the order of gdac.variables
SensorList(g, label) ==
    LET hit == SelectSeq(g.vars, LAMBDA ch : label \in ClassOf(ch))
    IN [k \in 1..Len(hit) |-> hit[k].name]

\* gdac[var].dims[0] of a variable without dimensions raises IndexError
sensor_variables(g) ==
    IF \E k \in 1..Len(g.vars) : g.vars[k].dims = <<>>
    THEN Raised("sensor_variables", "IndexError")
    ELSE Returned("sensor_variables",
                  [ctd |-> SensorList(g, "ctd"),
                   oxy |-> SensorList(g, "oxy"),
                   flbbcd |-> SensorList(g, "flbbcd"),
                   par |-> SensorList(g, "par"),
                   glider |-> SensorList(g, "glider"),
                   profile |-> SensorList(g, "profile")])

InSeq(x, seq) == \E k \in 1..Len(seq) : seq[k] = x

\* gdac[sensor_vars]: the named variables, and the coordinates along the
\* dimensions they use
SelectVars(g, sensor_vars) ==
    LET sel == SelectSeq(g.vars, LAMBDA ch : InSeq(ch.name, sensor_vars))
    IN [time |-> g.time,
        coords |-> IF \E k \in 1..Len(sel) : InSeq("time", sel[k].dims)
                   THEN g.coords ELSE {},
        vars |-> sel]

KeepRowAll(sub, r) ==
    \E k \in 1..Len(sub.vars) :
        InSeq("time", sub.vars[k].dims) /\ ~IsNaN(sub.vars[k].data[r])

\* Dataset.dropna(dim='time') with its default how='any': a row is kept when
\* every data variable along time has a value in it
KeepRow(sub, r) ==
    \A k \in 1..Len(sub.vars) :
        InSeq("time", sub.vars[k].dims) => ~IsNaN(sub.vars[k].data[r])

DropNa(sub) ==
    LET keep == flatnonzero([r \in 1..Len(sub.time) |-> KeepRow(sub, r)])
        Take(col) == [j \in 1..Len(keep) |-> col[keep[j] + 1]]
    IN [sub EXCEPT
          !.time = Take(sub.time),
          !.vars = [k \in 1..Len(sub.vars) |->
                      IF InSeq("time", sub.vars[k].dims)
                      THEN [sub.vars[k] EXCEPT !.data = Take(sub.vars[k].data)]
                      ELSE sub.vars[k]]]

split_data(g, sensor_vars) ==
    IF \E k \in 1..Len(sensor_vars) :
           \A j \in 1..Len(g.vars) : g.vars[j].name # sensor_vars[k]
    THEN Raised("split_data", "KeyError")
    ELSE Returned("split_data", DropNa(SelectVars(g, sensor_vars)))

----------------------------------------------------------------------------
(* The classifier model: sensor_variables on a science dataset.             *)

MaxChannels == 2    \* most variables of a science dataset

ChannelNames == <<"platform_meta", "salinity", "oxygen", "chlorophyll">>

InstrumentAttrs ==
    {<<>>, <<{}>>, <<{"ctd"}>>, <<{"oxy"}>>, <<{"par"}>>, <<{"flbbcd"}>>, <<{"ctd", "flbbcd"}>>}

ChannelMeta ==
    [dims : {<<>>, <<"time">>, <<"profile">>},
     attrs : [instrument : InstrumentAttrs, source_sensor : BOOLEAN]]

\* variable k is named ChannelNames[k]; the first one may instead be named
\* temperature
ScienceDataset(meta, first) ==
    [time |-> <<>>, coords |-> {},
     vars |-> [k \in 1..Len(meta) |->
                 [name |-> IF k = 1 /\ first THEN "temperature" ELSE ChannelNames[k],
                  dims |-> meta[k].dims, attrs |-> meta[k].attrs, data |-> <<>>]]]

InitClassifier ==
    /\ dvl = EmptyDataset
    /\ dvl0 = dvl
    /\ \E n \in 0..MaxChannels : \E meta \in [1..n -> ChannelMeta] : \E first \in BOOLEAN :
          gdac = ScienceDataset(meta, first)
    /\ waypoints = <<>>
    /\ pc = "idle"
    /\ local = NoLocal
    /\ applied = {}
    /\ ret = NoRet

SensorVariables ==
    /\ pc = "idle"
    /\ ret' = sensor_variables(gdac)
    /\ UNCHANGED <<dvl, dvl0, gdac, waypoints, pc, local, applied>>

NextClassifier == SensorVariables

SpecClassifier == InitClassifier /\ [][NextClassifier]_vars

----------------------------------------------------------------------------
(* Claims about the classifier.                                             *)

Labels == {"ctd", "oxy", "flbbcd", "par", "glider", "profile"}

Classified == ret.op = "sensor_variables" /\ ret.status = "ok"

\* the number of places, over all six lists, at which a name occurs
Occurrences(groups, name) ==
    Cardinality({<<l, k>> \in Labels \X (1..Len(gdac.vars)) :
                    k <= Len(groups[l]) /\ groups[l][k] = name})

KnownTokens == {"ctd", "oxy", "par", "flbbcd"}

\* C6 as stated: every channel whose instrument annotation contains a known
\* token, or that carries a source_sensor annotation, appears in exactly one
\* of the groups.
C6_AnnotatedInExactlyOne ==
    Classified =>
        \A k \in 1..Len(gdac.vars) :
            LET ch == gdac.vars[k]
            IN ((HasInstrument(ch) /\ ch.attrs.instrument[1] \cap KnownTokens # {})
                    \/ ch.attrs.source_sensor)
               => Occurrences(ret.value, ch.name) = 1

\* C6 (as amended): every channel whose instrument annotation contains a
\* known token, or that carries a source_sensor annotation, appears in
\* exactly one of the groups, unless its leading dimension is not 'profile'
\* and it carries an instrument annotation and either is named
\* platform_meta or its instrument annotation contains no known token.
C6_ClassifiedInExactlyOne ==
    Classified =>
        \A k \in 1..Len(gdac.vars) :
            LET ch == gdac.vars[k]
                known == HasInstrument(ch) /\ ch.attrs.instrument[1] \cap KnownTokens # {}
                excluded == /\ ch.dims[1] # "profile"
                            /\ HasInstrument(ch)
                            /\ (ch.name = "platform_meta" \/ ~known)
            IN ((known \/ ch.attrs.source_sensor) /\ ~excluded)
               => Occurrences(ret.value, ch.name) = 1

C6_Witness ==
    /\ Classified
    /\ \E k \in 1..Len(gdac.vars) :
          /\ gdac.vars[k].dims[1] = "time"
          /\ HasInstrument(gdac.vars[k])
          /\ gdac.vars[k].attrs.instrument[1] = {"flbbcd"}
          /\ gdac.vars[k].attrs.source_sensor
          /\ ret.value.flbbcd = <<gdac.vars[k].name>>
    /\ \E k \in 1..Len(gdac.vars) :
          gdac.vars[k].name = "platform_meta" /\ Occurrences(ret.value, "platform_meta") = 0

\* C7: the six groups are pairwise disjoint, no channel name occurs twice
\* within a group, the union of the groups is a subset of the dataset's
\* channel names, and a channel whose leading dimension is 'profile' is in
\* the profile group and in no other group whatever its annotations.
C7_GroupsDisjoint ==
    Classified =>
        LET groups == ret.value
            names == {gdac.vars[k].name : k \in 1..Len(gdac.vars)}
        IN /\ \A l \in Labels : \A k \in 1..Len(groups[l]) : groups[l][k] \in names
           /\ \A name \in names : Occurrences(groups, name) <= 1
           /\ \A k \in 1..Len(gdac.vars) :
                 gdac.vars[k].dims[1] = "profile" =>
                     /\ InSeq(gdac.vars[k].name, groups.profile)
                     /\ \A l \in Labels \ {"profile"} : ~InSeq(gdac.vars[k].name, groups[l])

C7_Witness ==
    /\ Classified
    /\ Len(ret.value.profile) = 1
    /\ Len(ret.value.ctd) = 1
    /\ \E k \in 1..Len(gdac.vars) :
          /\ gdac.vars[k].dims[1] = "profile"
          /\ HasInstrument(gdac.vars[k])
          /\ gdac.vars[k].attrs.source_sensor

----------------------------------------------------------------------------
(* The splitter model: split_data on a science dataset with two channels    *)
(* along time and one along profile.                                        *)

SplitRows == 3      \* rows of the science dataset of the splitter model

DataCells == {NaN, Num(4)}

NoSensor == [instrument |-> <<>>, source_sensor |-> FALSE]

TimeChannel(name, attrs, data) ==
    [name |-> name, dims |-> <<"time">>, attrs |-> attrs, data |-> data]

SplitDatasets ==
    {[time |-> [r \in 1..SplitRows |-> Epoch + r],
      coords |-> {},
      vars |-> <<TimeChannel("temperature", NoSensor, a),
                 TimeChannel("salinity", NoSensor, b),
                 [name |-> "profile_lat", dims |-> <<"profile">>, attrs |-> NoSensor,
                  data |-> <<NaN>>]>>] :
        a \in [1..SplitRows -> DataCells], b \in [1..SplitRows -> DataCells]}

Selections ==
    {<<>>, <<"temperature">>, <<"salinity">>, <<"temperature", "salinity">>,
     <<"salinity", "temperature">>, <<"conductivity">>}

InitSplit ==
    /\ dvl = EmptyDataset
    /\ dvl0 = dvl
    /\ gdac \in SplitDatasets
    /\ waypoints = <<>>
    /\ pc = "idle"
    /\ local = NoLocal
    /\ applied = {}
    /\ ret = NoRet

SplitData ==
    /\ pc = "idle"
    /\ \E sensor_vars \in Selections : ret' = split_data(gdac, sensor_vars)
    /\ UNCHANGED <<dvl, dvl0, gdac, waypoints, pc, local, applied>>

NextSplit == SplitData

SpecSplit == InitSplit /\ [][NextSplit]_vars

----------------------------------------------------------------------------
(* Claims about the splitter.                                               *)

Split == ret.op = "split_data" /\ ret.status = "ok"

\* the rows of the science dataset that are in the result, by timestamp
RowRetained(r) == InSeq(gdac.time[r], ret.value.time)

\* the channels of the science dataset that were selected
SelectedChannels ==
    {k \in 1..Len(gdac.vars) :
        \E j \in 1..Len(ret.value.vars) : ret.value.vars[j].name = gdac.vars[k].name}

\* C2 as stated: a time row is removed if and only if all of the selected
\* channels are missing at that row.
C2_DropsRowsMissingAll ==
    (Split /\ SelectedChannels # {}) =>
        \A r \in 1..Len(gdac.time) :
            ~RowRetained(r) <=> \A k \in SelectedChannels : IsNaN(gdac.vars[k].data[r])

\* C2 (as amended): a time row is removed if and only if at least one of
\* the selected channels is missing at that row; only rows in which every
\* selected channel has a value are retained, with their values.
C2_DropsRowsMissingAny ==
    Split =>
        /\ \A r \in 1..Len(gdac.time) :
              ~RowRetained(r) <=> \E k \in SelectedChannels : IsNaN(gdac.vars[k].data[r])
        /\ \A j \in 1..Len(ret.value.vars) : \A i \in 1..Len(ret.value.time) :
              \E k \in SelectedChannels : \E r \in 1..Len(gdac.time) :
                  /\ gdac.vars[k].name = ret.value.vars[j].name
                  /\ gdac.time[r] = ret.value.time[i]
                  /\ ret.value.vars[j].data[i] = gdac.vars[k].data[r]

C2_Witness ==
    /\ Split
    /\ Cardinality(SelectedChannels) = 2
    /\ \E r \in 1..Len(gdac.time) :
          /\ ~RowRetained(r)
          /\ \E k \in SelectedChannels : ~IsNaN(gdac.vars[k].data[r])
    /\ \E r \in 1..Len(gdac.time) : RowRetained(r)

----------------------------------------------------------------------------
(* merge.py: merge_datasets                                                 *)

\* the keys of sensor_vars in the order of the dictionary; 'profile' is
\* skipped by the loop
SensorOrder == <<"ctd", "oxy", "flbbcd", "par", "glider">>

\* sensor_data.rename_vars({v: '_'.join((sensor, v))}) for every variable
\* that is not a coordinate; the names the model uses, spelled out
Prefixed(sensor, v) ==
    CASE sensor = "ctd" /\ v = "temperature" -> "ctd_temperature"
      [] sensor = "flbbcd" /\ v = "temperature" -> "flbbcd_temperature"
      [] sensor = "glider" /\ v = "temperature" -> "glider_temperature"
      [] sensor = "ctd" /\ v = "m_depth" -> "ctd_m_depth"
      [] sensor = "flbbcd" /\ v = "m_depth" -> "flbbcd_m_depth"
      [] sensor = "glider" /\ v = "m_depth" -> "glider_m_depth"

RenameVars(sub, sensor) ==
    [sub EXCEPT !.vars = [k \in 1..Len(sub.vars) |->
                            [sub.vars[k] EXCEPT !.name = Prefixed(sensor, sub.vars[k].name)]]]

\* scipy's linear interp1d with fill_value='extrapolate' at the query t:
\* the segment is chosen by searchsorted clipped to the table, the value is
\* y_lo + slope * (t - x_lo), kept as the exact fraction num/den; a table
\* with a single point has slope 0/0 and yields NaN everywhere
InterpAt(x, y, t) ==
    IF Len(x) = 1 THEN NaN
    ELSE LET below == {j \in 1..Len(x) : x[j] < t}
             hi0 == Cardinality(below) + 1
             hi == IF hi0 < 2 THEN 2 ELSE IF hi0 > Len(x) THEN Len(x) ELSE hi0
             lo == hi - 1
             den == x[hi] - x[lo]
         IN Num([num |-> y[lo][1] * den + (y[hi][1] - y[lo][1]) * (t - x[lo]),
                 den |-> den])

\* sensor_data.interp_like(dvl['time'], method='linear',
\* kwargs={'fill_value': 'extrapolate'}): every variable along time is
\* interpolated onto the reference time axis; an empty table is an error
interp_like(sub, time) ==
    IF Len(sub.time) = 0 /\ \E k \in 1..Len(sub.vars) : InSeq("time", sub.vars[k].dims)
    THEN Raised("interp_like", "ValueError")
    ELSE Returned("interp_like",
            [time |-> time,
             coords |-> sub.coords,
             vars |-> [k \in 1..Len(sub.vars) |->
                         [sub.vars[k] EXCEPT
                            !.data = [i \in 1..Len(time) |->
                                        InterpAt(sub.time, sub.vars[k].data, time[i])]]]])

\* if 'depth' in interp_sensor.coords: interp_sensor.drop_vars('depth')
DropDepth(interp) == [interp EXCEPT !.coords = interp.coords \ {"depth"}]

Conflicts(a, b) ==
    \E i \in 1..Len(a) : ~IsNaN(a[i]) /\ ~IsNaN(b[i]) /\ a[i] # b[i]

XrMergeKeepingOriginal(ds, interp) ==
    LET base == [ds EXCEPT !.vars =
                    [name \in DOMAIN ds.vars \cap {"depth_from_pressure"} |-> ds.vars[name]]]
        M[k \in 0..Len(interp.vars)] ==
            IF k = 0 THEN base
            ELSE SetVar(M[k-1], interp.vars[k].name, interp.vars[k].data, interp.vars[k].attrs)
    IN Returned("merge", M[Len(interp.vars)])

\* xr.merge([dvl, interp_sensor]): the variables of both; a name both have
\* must agree wherever both have a value (compat 'no_conflicts'), and the
\* missing values of the first are then filled from the second
XrMerge(ds, interp) ==
    LET both == {k \in 1..Len(interp.vars) : interp.vars[k].name \in DOMAIN ds.vars}
        M[k \in 0..Len(interp.vars)] ==
            IF k = 0 THEN ds
            ELSE IF k \in both
                 THEN LET old == ds.vars[interp.vars[k].name]
                      IN SetVar(M[k-1], interp.vars[k].name,
                                [i \in 1..Len(old.data) |->
                                    IF IsNaN(old.data[i]) THEN interp.vars[k].data[i]
                                    ELSE old.data[i]],
                                old.attrs)
                 ELSE SetVar(M[k-1], interp.vars[k].name, interp.vars[k].data,
                             interp.vars[k].attrs)
    IN IF \E k \in both : Conflicts(ds.vars[interp.vars[k].name].data, interp.vars[k].data)
       THEN Raised("merge", "MergeError")
       ELSE Returned("merge", M[Len(interp.vars)])

\* one turn of the loop over the sensors: split, rename, interpolate, drop
\* depth, merge
MergeSensor(ds, g, sensor_vars, sensor) ==
    LET sensor_data == RenameVars(split_data(g, sensor_vars[sensor]).value, sensor)
        interp_sensor == interp_like(sensor_data, ds.time)
    IN IF interp_sensor.status = "raised" THEN interp_sensor
       ELSE XrMerge(ds, DropDepth(interp_sensor.value))

\* the loop over the sensors from the k-th on; an exception ends it
RECURSIVE MergeLoop(_, _, _, _)
MergeLoop(ds, g, sensor_vars, k) ==
    IF k > Len(SensorOrder) THEN Returned("merge_datasets", ds)
    ELSE LET r == MergeSensor(ds, g, sensor_vars, SensorOrder[k])
         IN IF r.status = "raised" THEN Raised("merge_datasets", r.value)
            ELSE MergeLoop(r.value, g, sensor_vars, k + 1)

merge_datasets(ds, g) ==
    LET sv == sensor_variables(g)
    IN IF sv.status = "raised" THEN Raised("merge_datasets", sv.value)
       ELSE MergeLoop(ds, g, sv.value, 1)

----------------------------------------------------------------------------
(* The pipeline model: the caller applies merge_datasets, add_waypoints     *)
(* and add_profiles to one reference dataset, in any order.                 *)

PipeSamples == 3    \* samples of the reference dataset of the pipeline model
PipeRows == 2       \* rows of the science dataset of the pipeline model

PipelineDvl ==
    {[time |-> [i \in 1..PipeSamples |-> Epoch + i],
      coords |-> {},
      vars |-> ("depth_from_pressure" :> [data |-> d, attrs |-> NoAttrs])] :
        d \in [1..PipeSamples -> {Num(0), Num(5)}]}

PipelineGdac ==
    {[time |-> [r \in 1..PipeRows |-> Epoch + 2 * r - 2],
      coords |-> c,
      vars |-> <<TimeChannel("temperature", [instrument |-> <<{i}>>, source_sensor |-> FALSE], a),
                 TimeChannel("m_depth", [instrument |-> <<>>, source_sensor |-> TRUE],
                             [r \in 1..PipeRows |-> Num(r * r)])>>] :
        a \in [1..PipeRows -> DataCells], i \in {"ctd", "flbbcd"}, c \in {{}, {"depth"}}}

PipelineLogs ==
    {<<>>, ScenarioB, SubSeq(ScenarioB, 3, 3),
     <<ScenarioB[3], [ScenarioB[1] EXCEPT !.time = Num(TimeText[3])]>>}

InitPipeline ==
    /\ dvl \in PipelineDvl
    /\ dvl0 = dvl
    /\ gdac \in PipelineGdac
    /\ waypoints \in PipelineLogs
    /\ pc = "idle"
    /\ local = NoLocal
    /\ applied = {}
    /\ ret = NoRet

\* dvl = merge_datasets(dvl, gdac)
MergeDatasets ==
    /\ pc = "idle"
    /\ LET r == merge_datasets(dvl, gdac)
       IN /\ ret' = r
          /\ dvl' = IF r.status = "ok" THEN r.value ELSE dvl
          /\ applied' = IF r.status = "ok" THEN applied \cup {"merge"} ELSE applied
    /\ UNCHANGED <<dvl0, gdac, waypoints, pc, local>>

NextPipeline == MergeDatasets \/ AddProfiles \/ NextWaypoints

SpecPipeline == InitPipeline /\ [][NextPipeline]_vars

----------------------------------------------------------------------------
(* Claims about the pipeline.                                               *)

AllPaths == {"merge", "waypoints", "profiles"}

=============================================================================
